---------------------------- MODULE Spec2Model ----------------------------
(***************************************************************************)
(* LIN master emulation over a UART (gicking/LIN_master_Arduino).          *)
(*                                                                         *)
(* The engine (class LIN_Master, src/src/LIN_master.cpp) is modelled as a  *)
(* state machine.  Every method is an operator that maps the machine       *)
(* record before the call to the machine record after it, so that the      *)
(* blocking requests can call the step handlers exactly as the code does.  *)
(* The serial port and the task scheduler are the environment: what the    *)
(* bus delivers to the UART is an input of each step.                      *)
(***************************************************************************)
EXTENDS Integers, Sequences, FiniteSets, TLC

VARIABLES
    state,          \* LIN_status_t  state
    error,          \* LIN_error_t   error, as the set of flags that are set
    baudrate,       \* uint16_t      baudrate
    version,        \* LIN_version_t version
    background,     \* bool          background
    durationBreak,  \* uint8_t       durationBreak
    durationFrame,  \* uint8_t       durationFrame
    frameType,      \* LIN_frame_t   frameType
    bufTx,          \* uint8_t       bufTx[12]
    lenTx,          \* uint8_t       lenTx
    bufRx,          \* uint8_t       bufRx[12]
    lenRx,          \* uint8_t       lenRx
    rx_handler,     \* void (*rx_handler)(uint8_t, uint8_t*)
    dataPtr,        \* uint8_t      *dataPtr
    serialBaud,     \* baud rate the UART runs at (0: not begun / ended)
    rxq,            \* unread input of the UART (pSerial->available() bytes)
    tasks,          \* one-shot tasks registered with the scheduler
    userBuf,        \* the caller's buffers handed to the buffer overload
    wire,           \* bytes written to the UART since the last accepted request
    calls,          \* invocations of the caller's handler since the last accepted request
    ret,            \* the values the last request call may have returned
    nReq,           \* number of request calls made so far
    path,           \* code paths taken by the last operation, in order
    codec           \* a call of protectID / checksum on its own: arguments and results

engineVars == << state, error, baudrate, version, background, durationBreak,
                 durationFrame, frameType, bufTx, lenTx, bufRx, lenRx, rx_handler,
                 dataPtr, serialBaud, rxq, tasks, userBuf, wire, calls, ret, nReq, path >>

vars == << engineVars, codec >>

---------------------------------------------------------------------------
(* Program constants *)

LIN_V1 == 1
LIN_V2 == 2

LIN_MASTER_REQUEST == 1
LIN_SLAVE_RESPONSE == 2

LIN_SUCCESS       == 0
LIN_ERROR_STATE   == 1
LIN_ERROR_ECHO    == 2
LIN_ERROR_TIMEOUT == 4
LIN_ERROR_CHK     == 8
LIN_ERROR_MISC    == 128

LIN_STATE_OFF   == 0
LIN_STATE_IDLE  == 1
LIN_STATE_BREAK == 2
LIN_STATE_FRAME == 3

BufLen == 12

---------------------------------------------------------------------------
(* Bounds of the model and the input domains *)

MaxData == 1
MaxRequests == 3

IDs        == {16}
DataBytes  == {1}
NoiseBytes == {255}
NoiseByte  == CHOOSE b \in NoiseBytes : TRUE
Configs    == { << 19200, LIN_V2, TRUE >>, << 9600, LIN_V1, FALSE >> }
Handlers   == {"H1"}
Bufs       == {"A"}
NULL       == "null"
wrapperSend            == "send"
wrapperReceive         == "receive"
wrapperDefaultCallback == "copy"

Payloads(n) == [1..n -> DataBytes]
AllPayloads == UNION {Payloads(n) : n \in 0..MaxData}

\* Control that flows off the end of a value-returning function returns an
\* indeterminate value: any LIN_error_t may come back.
UndefinedReturn == {LIN_SUCCESS, LIN_ERROR_STATE, LIN_ERROR_ECHO, LIN_ERROR_TIMEOUT,
                    LIN_ERROR_CHK, LIN_ERROR_MISC}

---------------------------------------------------------------------------
(* Frame codec *)

Bit(n, k) == (n \div (2^k)) % 2

\* A protectID that takes ID3 instead of ID4 into the first parity bit: not
\* what the program does, kept to show what C17_ProtectID excludes.
protectIDWrongParity(id) ==
    LET pid0 == id % 64
        tmp0 == (Bit(pid0, 0) + Bit(pid0, 1) + Bit(pid0, 2) + Bit(pid0, 3)) % 2
        pid1 == pid0 + tmp0 * 64
        tmp1 == 1 - ((Bit(pid1, 1) + Bit(pid1, 3) + Bit(pid1, 4) + Bit(pid1, 5)) % 2)
    IN  pid1 + tmp1 * 128

protectID(id) ==
    LET pid0 == id % 64
        tmp0 == (Bit(pid0, 0) + Bit(pid0, 1) + Bit(pid0, 2) + Bit(pid0, 4)) % 2
        pid1 == pid0 + tmp0 * 64
        tmp1 == 1 - ((Bit(pid1, 1) + Bit(pid1, 3) + Bit(pid1, 4) + Bit(pid1, 5)) % 2)
    IN  pid1 + tmp1 * 128

RECURSIVE chkLoop(_, _, _)
chkLoop(chk, data, i) ==
    IF i > Len(data) THEN chk
    ELSE LET c == chk + data[i]
         IN  chkLoop(IF c > 255 THEN c - 255 ELSE c, data, i + 1)

\* Plain sum of the bytes of a sequence
RECURSIVE SumBytes(_)
SumBytes(data) == IF data = << >> THEN 0 ELSE Head(data) + SumBytes(Tail(data))

\* Three checksums the program does not compute, kept to show what
\* C18_ChecksumValue, C19_CorruptionDetected and C20_DiagnosticClassic exclude:
\* a sum without the end-around carry, a sum that never includes the
\* protected ID, and a sum without the exception for the diagnostic IDs.
checksumNoCarry(ver, id, data) ==
    LET pid  == protectID(id)
        chk0 == IF ~((ver = LIN_V1) \/ (pid = 60) \/ (pid = 125)) THEN pid ELSE 0
    IN  (255 - ((chk0 + SumBytes(data)) % 256)) % 256

checksumDataOnly(ver, id, data) ==
    (255 - (chkLoop(0, data, 1) % 256)) % 256

checksumNoDiagnostic(ver, id, data) ==
    LET pid  == protectID(id)
        chk0 == IF ver # LIN_V1 THEN pid ELSE 0
    IN  (255 - (chkLoop(chk0, data, 1) % 256)) % 256

checksum(ver, id, data) ==
    LET pid  == protectID(id)
        chk0 == IF ~((ver = LIN_V1) \/ (pid = 60) \/ (pid = 125)) THEN pid ELSE 0
        chk  == chkLoop(chk0, data, 1)
    IN  (255 - (chk % 256)) % 256

---------------------------------------------------------------------------
(* The machine record *)

Cur == [ state |-> state, error |-> error, baudrate |-> baudrate,
         version |-> version, background |-> background,
         durationBreak |-> durationBreak, durationFrame |-> durationFrame,
         frameType |-> frameType, bufTx |-> bufTx, lenTx |-> lenTx,
         bufRx |-> bufRx, lenRx |-> lenRx, rx_handler |-> rx_handler,
         dataPtr |-> dataPtr, serialBaud |-> serialBaud, rxq |-> rxq,
         tasks |-> tasks, userBuf |-> userBuf, wire |-> wire,
         calls |-> calls, ret |-> ret, nReq |-> nReq, path |-> path ]

Commit(s) ==
    /\ state' = s.state /\ error' = s.error /\ baudrate' = s.baudrate
    /\ version' = s.version /\ background' = s.background
    /\ durationBreak' = s.durationBreak /\ durationFrame' = s.durationFrame
    /\ frameType' = s.frameType /\ bufTx' = s.bufTx /\ lenTx' = s.lenTx
    /\ bufRx' = s.bufRx /\ lenRx' = s.lenRx /\ rx_handler' = s.rx_handler
    /\ dataPtr' = s.dataPtr /\ serialBaud' = s.serialBaud /\ rxq' = s.rxq
    /\ tasks' = s.tasks /\ userBuf' = s.userBuf /\ wire' = s.wire
    /\ calls' = s.calls /\ ret' = s.ret /\ nReq' = s.nReq /\ path' = s.path
    /\ codec' = codec

ZeroBuf == [i \in 0..(BufLen - 1) |-> 0]
NoTask  == [on |-> FALSE, delay |-> 0, stale |-> FALSE]

\* memset(buf, 0, n)
memset0(buf, n) == [i \in DOMAIN buf |-> IF i < n THEN 0 ELSE buf[i]]

\* memcpy(buf + at, data, Len(data))
memcpy(buf, at, data) ==
    [i \in DOMAIN buf |-> IF i >= at /\ i < at + Len(data) THEN data[i - at + 1] ELSE buf[i]]

\* Static storage: the instances LIN_master0..3 are globals, zero-initialised,
\* and the constructors only store the port and the wrappers.
InitFields ==
    /\ state = LIN_STATE_OFF
    /\ error = {}
    /\ baudrate = 0
    /\ version = 0
    /\ background = FALSE
    /\ durationBreak = 0
    /\ durationFrame = 0
    /\ frameType = 0
    /\ bufTx = ZeroBuf
    /\ lenTx = 0
    /\ bufRx = ZeroBuf
    /\ lenRx = 0
    /\ rx_handler = NULL
    /\ dataPtr = NULL
    /\ serialBaud = 0
    /\ rxq = << >>
    /\ tasks = [w \in {wrapperSend, wrapperReceive} |-> NoTask]
    /\ wire = << >>
    /\ calls = << >>
    /\ ret = {}
    /\ nReq = 0
    /\ path = << >>

\* The caller's buffers are outside the object and start empty
InitEngine == InitFields /\ userBuf = [b \in Bufs |-> << >>]

\* No call of the codec on its own is under way
NoCodec == [op |-> "none", ver |-> 0, id |-> 0, data |-> << >>, out |-> << >>,
            chk |-> << >>, classic |-> << >>, bad |-> << >>, chk2 |-> << >>]

Init == InitEngine /\ codec = NoCodec

---------------------------------------------------------------------------
(* begin / end *)

begin(s, Baudrate, Version, Background) ==
    [s EXCEPT !.baudrate = Baudrate,
              !.version = Version,
              !.background = Background,
              !.durationBreak = IF Baudrate < 12000 THEN 2 ELSE 1,
              !.durationFrame = IF Baudrate < 12000 THEN 13 ELSE 7,
              !.error = {},
              !.state = LIN_STATE_IDLE,
              !.serialBaud = Baudrate]

end(s) ==
    [s EXCEPT !.error = {},
              !.state = LIN_STATE_OFF,
              !.serialBaud = 0]

---------------------------------------------------------------------------
(* The bus: what reaches the UART while a step handler waits *)

BreakBehaviours == {"none", "echo", "noise"}

\* What follows the written frame body of a frame with n data bytes (n + 3
\* bytes are expected): all of them, too few (none, or all but the last), one
\* of them changed, or one byte too many.  slave is the data a slave sends.
FrameBehaviours(n) ==
    [kind : {"exact", "extra"}, k : {0}, slave : Payloads(n)]
      \cup [kind : {"short"}, k : {0, n + 2}, slave : Payloads(n)]
      \cup [kind : {"flip"}, k : 1..(n + 3), slave : Payloads(n)]

\* What the bus does during a whole blocking request
BusBehaviours(n) ==
    [brk : {"echo"}, frame : FrameBehaviours(n)]
      \cup [brk : {"none", "noise"}, frame : {[kind |-> "short", k |-> 0, slave |-> << >>]}]

\* Bytes that arrive after the break byte was written: nothing, its echo, or
\* a corrupted echo.
BreakEcho(s, brk) ==
    CASE brk = "none"  -> << >>
      [] brk = "echo"  -> << s.bufTx[0] >>
      [] brk = "noise" -> << NoiseByte >>

\* Bytes that arrive after the frame body was written: the echo of the written
\* bytes, followed for a slave response by the slave's data and checksum.
FrameEcho(s, f) ==
    LET written == [i \in 1..(s.lenTx - 1) |-> s.bufTx[i]]
        slave   == IF s.frameType = LIN_MASTER_REQUEST THEN << >>
                   ELSE f.slave \o << checksum(s.version, s.bufTx[2], f.slave) >>
        full    == written \o slave
    IN  CASE f.kind = "exact" -> full
          [] f.kind = "short" -> SubSeq(full, 1, f.k)
          [] f.kind = "flip"  -> [full EXCEPT ![f.k] = (@ + 1) % 256]
          [] f.kind = "extra" -> full \o << NoiseByte >>

---------------------------------------------------------------------------
(* Scheduler and receive callbacks *)

\* Tasks_Add((Task) func, 0, delay): a one-shot task; a function that is
\* already registered is updated, not registered twice.
Tasks_Add(s, func, delay) ==
    [s EXCEPT !.tasks[func] = [on |-> TRUE, delay |-> delay, stale |-> FALSE]]

\* A default callback that copies nothing: not what the program does, kept
\* to show what C28_BufferOverload excludes.
defaultCallbackNoCopy(s, numData, data) == s

\* memcpy(dataPtr, data, numData) into the caller's buffer
defaultCallback(s, numData, data) ==
    LET old == s.userBuf[s.dataPtr]
        new == [i \in 1..(IF Len(old) > numData THEN Len(old) ELSE numData) |->
                   IF i <= numData THEN data[i] ELSE old[i]]
    IN  [s EXCEPT !.userBuf[s.dataPtr] = new]

\* A completion that invokes the handler twice: not what the program does,
\* kept to show what C16_SlaveResponseDelivered excludes.
callHandlerTwice(s, numData, data) ==
    LET c  == [h |-> s.rx_handler, len |-> numData, data |-> data, at |-> s.state]
        s1 == [s EXCEPT !.calls = @ \o << c, c >>]
    IN  IF s.rx_handler = wrapperDefaultCallback
        THEN defaultCallback(s1, numData, data)
        ELSE s1

\* A handler of the caller that issues a request of its own while it runs
RequestingHandler == "HReq"

\* The bus during the request issued from inside the handler
NestedBus == [brk |-> "none", frame |-> [kind |-> "short", k |-> 0, slave |-> << >>]]

RECURSIVE receiveSlaveResponse(_, _, _, _, _)

\* rx_handler(lenRx-4, bufRx+3)
callHandler(s, numData, data) ==
    LET s1 == [s EXCEPT !.calls = Append(@, [h |-> s.rx_handler, len |-> numData,
                                              data |-> data, at |-> s.state])]
    IN  IF s.rx_handler = wrapperDefaultCallback
        THEN defaultCallback(s1, numData, data)
        ELSE IF s.rx_handler = RequestingHandler
             THEN receiveSlaveResponse(s1, CHOOSE id \in IDs : TRUE, 0,
                                       RequestingHandler, NestedBus)
             ELSE s1

---------------------------------------------------------------------------
(* Step handlers *)

\* A failure path that stores its flag instead of OR-ing it into the error
\* set: not what the program does, kept to show what C6_ErrorLatched excludes.
FailOverwriting(s, flag, tag) ==
    [s EXCEPT !.error = {flag},
              !.state = LIN_STATE_IDLE,
              !.bufRx = memset0(@, s.lenRx),
              !.path  = Append(@, tag)]

\* A failure path that also restores the configured baud rate: not what the
\* program does, kept to show what C30_WrongStateStep excludes.
FailRestoringBaud(s, flag, tag) ==
    [s EXCEPT !.error = @ \cup {flag},
              !.state = LIN_STATE_IDLE,
              !.bufRx = memset0(@, s.lenRx),
              !.serialBaud = s.baudrate,
              !.path  = Append(@, tag)]

\* error |= flag; state = LIN_STATE_IDLE; memset(bufRx, 0, lenRx); return
Fail(s, flag, tag) ==
    [s EXCEPT !.error = @ \cup {flag},
              !.state = LIN_STATE_IDLE,
              !.bufRx = memset0(@, s.lenRx),
              !.path  = Append(@, tag)]

\* A send step that accepts any byte as the break echo: not what the program
\* does, kept to show what C29_SendStep excludes.
handlerSendAnyEcho(s, brk) ==
    IF s.state # LIN_STATE_BREAK
    THEN Fail(s, LIN_ERROR_STATE, "send:state")
    ELSE
      LET s1 == [s EXCEPT !.rxq = @ \o BreakEcho(s, brk)]
      IN  IF Len(s1.rxq) = 0
          THEN Fail(s1, LIN_ERROR_TIMEOUT, "send:timeout")
          ELSE
            LET s2 == [s1 EXCEPT !.bufRx[0] = Head(s1.rxq), !.rxq = Tail(s1.rxq)]
                s3 == [s2 EXCEPT
                         !.serialBaud = s.baudrate,
                         !.wire  = @ \o [i \in 1..(s.lenTx - 1) |->
                                           << s.bufTx[i], s.baudrate >>],
                         !.state = LIN_STATE_FRAME,
                         !.path  = Append(@, "send:ok")]
            IN  IF s.background
                THEN Tasks_Add(s3, wrapperReceive, s.durationFrame)
                ELSE s3

\* A send step that writes the whole transmit buffer, break byte included,
\* after the break echo: not what the program does, kept to show what
\* C26_WireFormat excludes.
handlerSendWholeFrame(s, brk) ==
    IF s.state # LIN_STATE_BREAK
    THEN Fail(s, LIN_ERROR_STATE, "send:state")
    ELSE
      LET s1 == [s EXCEPT !.rxq = @ \o BreakEcho(s, brk)]
      IN  IF Len(s1.rxq) = 0
          THEN Fail(s1, LIN_ERROR_TIMEOUT, "send:timeout")
          ELSE
            LET s2 == [s1 EXCEPT !.bufRx[0] = Head(s1.rxq), !.rxq = Tail(s1.rxq)]
            IN  IF s2.bufRx[0] # 0
                THEN Fail(s2, LIN_ERROR_ECHO, "send:echo")
                ELSE
                  LET s3 == [s2 EXCEPT
                               !.serialBaud = s.baudrate,
                               !.wire  = @ \o [i \in 1..s.lenTx |->
                                                 << s.bufTx[i - 1], s.baudrate >>],
                               !.state = LIN_STATE_FRAME,
                               !.path  = Append(@, "send:ok")]
                  IN  IF s.background
                      THEN Tasks_Add(s3, wrapperReceive, s.durationFrame)
                      ELSE s3

handlerSend(s, brk) ==
    IF s.state # LIN_STATE_BREAK
    THEN Fail(s, LIN_ERROR_STATE, "send:state")
    ELSE
      LET s1 == [s EXCEPT !.rxq = @ \o BreakEcho(s, brk)]
      IN  IF Len(s1.rxq) = 0
          THEN Fail(s1, LIN_ERROR_TIMEOUT, "send:timeout")
          ELSE
            LET s2 == [s1 EXCEPT !.bufRx[0] = Head(s1.rxq), !.rxq = Tail(s1.rxq)]
            IN  IF s2.bufRx[0] # 0
                THEN Fail(s2, LIN_ERROR_ECHO, "send:echo")
                ELSE
                  LET s3 == [s2 EXCEPT
                               !.serialBaud = s.baudrate,
                               !.wire  = @ \o [i \in 1..(s.lenTx - 1) |->
                                                 << s.bufTx[i], s.baudrate >>],
                               !.state = LIN_STATE_FRAME,
                               !.path  = Append(@, "send:ok")]
                  IN  IF s.background
                      THEN Tasks_Add(s3, wrapperReceive, s.durationFrame)
                      ELSE s3

\* memcmp(a, b, n) = 0
memEq(a, b, n) == \A i \in 0..(n - 1) : a[i] = b[i]

\* if (pSerial->available() != lenRx-1): the wait ended without the frame
frameTimedOut(s) == Len(s.rxq) # s.lenRx - 1

\* for (i=1; i<lenRx; i++) bufRx[i] = pSerial->read();
readFrame(s) ==
    [s EXCEPT !.bufRx = [i \in DOMAIN @ |->
                           IF i >= 1 /\ i < s.lenRx THEN s.rxq[i] ELSE @[i]],
              !.rxq = SubSeq(@, s.lenRx, Len(@))]

\* A master-request check that compares the header only: not what the program
\* does, kept to show what C12_MasterEchoCompared excludes.
checkMasterRequestHeaderOnly(s) ==
    IF ~memEq(s.bufRx, s.bufTx, 3)
    THEN Fail(s, LIN_ERROR_ECHO, "recv:echo")
    ELSE [s EXCEPT !.state = LIN_STATE_IDLE, !.path = Append(@, "recv:ok")]

\* Master request: the echo of the whole frame must match what was sent.
checkMasterRequest(s) ==
    IF ~memEq(s.bufRx, s.bufTx, s.lenTx)
    THEN Fail(s, LIN_ERROR_ECHO, "recv:echo")
    ELSE [s EXCEPT !.state = LIN_STATE_IDLE, !.path = Append(@, "recv:ok")]

\* A slave-response check that compares every received byte with the transmit
\* buffer: not what the program does, kept to show what
\* C13_SlaveHeaderOnly excludes.
checkSlaveResponseWholeEcho(s) ==
    IF ~memEq(s.bufRx, s.bufTx, s.lenRx)
    THEN Fail(s, LIN_ERROR_ECHO, "recv:echo")
    ELSE
      LET id       == s.bufRx[2]
          numData  == s.lenRx - 4
          data     == [i \in 1..numData |-> s.bufRx[2 + i]]
          chk      == s.bufRx[s.lenRx - 1]
          chk_calc == checksum(s.version, id, data)
      IN  IF chk # chk_calc
          THEN Fail(s, LIN_ERROR_CHK, "recv:chk")
          ELSE [callHandler(s, numData, data) EXCEPT
                   !.state = LIN_STATE_IDLE,
                   !.path = Append(@, "recv:ok")]

\* A slave-response check that accepts any checksum byte: not what the
\* program does, kept to show what C14_SlaveChecksumJudged excludes.
checkSlaveResponseNoChecksum(s) ==
    IF ~memEq(s.bufRx, s.bufTx, 3)
    THEN Fail(s, LIN_ERROR_ECHO, "recv:echo")
    ELSE
      LET numData  == s.lenRx - 4
          data     == [i \in 1..numData |-> s.bufRx[2 + i]]
      IN  [callHandler(s, numData, data) EXCEPT
              !.state = LIN_STATE_IDLE,
              !.path = Append(@, "recv:ok")]

\* A slave-response check that hands the data to the handler before it has
\* verified the checksum: not what the program does, kept to show what
\* C3_HandlerExactlyOnce excludes.
checkSlaveResponseHandlerFirst(s) ==
    IF ~memEq(s.bufRx, s.bufTx, 3)
    THEN Fail(s, LIN_ERROR_ECHO, "recv:echo")
    ELSE
      LET id       == s.bufRx[2]
          numData  == s.lenRx - 4
          data     == [i \in 1..numData |-> s.bufRx[2 + i]]
          chk      == s.bufRx[s.lenRx - 1]
          chk_calc == checksum(s.version, id, data)
          called   == callHandler(s, numData, data)
      IN  IF chk # chk_calc
          THEN Fail(called, LIN_ERROR_CHK, "recv:chk")
          ELSE [called EXCEPT !.state = LIN_STATE_IDLE,
                              !.path = Append(@, "recv:ok")]

\* Slave response: the echo of the header must match, the checksum of the
\* received data must be right, and then the handler gets the data.
checkSlaveResponse(s) ==
    IF ~memEq(s.bufRx, s.bufTx, 3)
    THEN Fail(s, LIN_ERROR_ECHO, "recv:echo")
    ELSE
      LET id       == s.bufRx[2]
          numData  == s.lenRx - 4
          data     == [i \in 1..numData |-> s.bufRx[2 + i]]
          chk      == s.bufRx[s.lenRx - 1]
          chk_calc == checksum(s.version, id, data)
      IN  IF chk # chk_calc
          THEN Fail(s, LIN_ERROR_CHK, "recv:chk")
          ELSE [callHandler(s, numData, data) EXCEPT
                   !.state = LIN_STATE_IDLE,
                   !.path = Append(@, "recv:ok")]

handlerReceive(s, f) ==
    IF s.state # LIN_STATE_FRAME
    THEN Fail(s, LIN_ERROR_STATE, "recv:state")
    ELSE
      LET s1 == [s EXCEPT !.rxq = @ \o FrameEcho(s, f)]
      IN  IF frameTimedOut(s1)
          THEN Fail(s1, LIN_ERROR_TIMEOUT, "recv:timeout")
          ELSE IF s.frameType = LIN_MASTER_REQUEST
               THEN checkMasterRequest(readFrame(s1))
               ELSE checkSlaveResponse(readFrame(s1))

---------------------------------------------------------------------------
(* Requests *)

\* Bookkeeping of the observer at the moment a request is accepted: the logs
\* of written bytes and handler invocations start afresh, and every task
\* still registered was registered for an earlier transaction.
accept(s) ==
    [s EXCEPT !.wire  = << >>,
              !.calls = << >>,
              !.tasks = [w \in DOMAIN s.tasks |-> [s.tasks[w] EXCEPT !.stale = s.tasks[w].on]],
              !.path  = Append(@, "accepted")]

\* A break written without discarding the unread input first: not what the
\* program does, kept to show what C32_StaleInputDiscarded excludes.
startBreakNoFlush(s) ==
    [s EXCEPT !.serialBaud = s.baudrate \div 2,
              !.wire = Append(@, << s.bufTx[0], s.baudrate \div 2 >>),
              !.state = LIN_STATE_BREAK]

\* A break written without halving the baud rate first: not what the program
\* does, kept to show what C11_BreakSequencing excludes.
startBreakFullBaud(s) ==
    [s EXCEPT !.rxq = << >>,
              !.serialBaud = s.baudrate,
              !.wire = Append(@, << s.bufTx[0], s.baudrate >>),
              !.state = LIN_STATE_BREAK]

\* while (pSerial->available()) pSerial->read();
\* pSerial->begin(baudrate/2); pSerial->write(bufTx[0]); state = LIN_STATE_BREAK
startBreak(s) ==
    [s EXCEPT !.rxq = << >>,
              !.serialBaud = s.baudrate \div 2,
              !.wire = Append(@, << s.bufTx[0], s.baudrate \div 2 >>),
              !.state = LIN_STATE_BREAK]

\* if (state != LIN_STATE_IDLE) { error |= LIN_ERROR_STATE; state = LIN_STATE_IDLE;
\*   memset(bufRx, 0, lenRx); return LIN_ERROR_STATE; }
reject(s) ==
    [Fail(s, LIN_ERROR_STATE, "rejected") EXCEPT !.ret = {LIN_ERROR_STATE}]

\* A blocking request that calls the send handler only: not what the program
\* does, kept to show what C31_BlockingConsumed excludes.
blockingStepsSendOnly(s, bus) == handlerSend(s, bus.brk)

\* Blocking operation: the request calls the send handler and then, whatever
\* the send handler did, the receive handler.
blockingSteps(s, bus) == handlerReceive(handlerSend(s, bus.brk), bus.frame)

sendMasterRequest(s, id, data, bus) ==
    IF s.state # LIN_STATE_IDLE
    THEN reject(s)
    ELSE
      LET numData == Len(data)
          pid == protectID(id)
          tx0 == [s.bufTx EXCEPT ![0] = 0, ![1] = 85, ![2] = pid]
          tx1 == memcpy(tx0, 3, data)
          tx2 == [tx1 EXCEPT ![3 + numData] = checksum(s.version, pid, data)]
          s1  == [accept(s) EXCEPT !.frameType = LIN_MASTER_REQUEST,
                                   !.bufTx = tx2,
                                   !.lenTx = numData + 4,
                                   !.lenRx = numData + 4]
          s2  == startBreak(s1)
          s3  == IF s.background
                 THEN Tasks_Add(s2, wrapperSend, s.durationBreak)
                 ELSE blockingSteps(s2, bus)
      IN  [s3 EXCEPT !.ret = UndefinedReturn]

receiveSlaveResponse(s, id, numData, Rx_handler, bus) ==
    IF s.state # LIN_STATE_IDLE
    THEN reject(s)
    ELSE
      LET pid == protectID(id)
          s1  == [accept(s) EXCEPT !.frameType = LIN_SLAVE_RESPONSE,
                                   !.bufTx = [@ EXCEPT ![0] = 0, ![1] = 85, ![2] = pid],
                                   !.lenTx = 3,
                                   !.lenRx = 4 + numData]
          s2  == startBreak([s1 EXCEPT !.rx_handler = Rx_handler])
          s3  == IF s.background
                 THEN Tasks_Add(s2, wrapperSend, s.durationBreak)
                 ELSE blockingSteps(s2, bus)
      IN  [s3 EXCEPT !.ret = UndefinedReturn]

\* The buffer overload stores the pointer, forwards to the handler overload
\* and ends without a return statement.
receiveSlaveResponseBuf(s, id, numData, data, bus) ==
    LET s1 == receiveSlaveResponse([s EXCEPT !.dataPtr = data], id, numData,
                                   wrapperDefaultCallback, bus)
    IN  [s1 EXCEPT !.ret = UndefinedReturn]

---------------------------------------------------------------------------
(* Actions *)

Enter(name) == [Cur EXCEPT !.path = << name >>]
Call(name)  == [Cur EXCEPT !.path = << name >>, !.nReq = @ + 1]

\* The inputs a call reads.  A rejected call reads none of its arguments, and
\* a request in background mode returns before the bus answers; one
\* representative input stands for all of them there.
One(S) == {CHOOSE x \in S : TRUE}
ArgsOf(S) == IF state = LIN_STATE_IDLE THEN S ELSE One(S)
BusOf(B)  == IF state = LIN_STATE_IDLE /\ ~background THEN B ELSE One(B)

\* The configuration is fixed for the engine's lifetime: begin is called again
\* only with the configuration it was first called with.
Begin ==
    \E c \in {x \in Configs : baudrate = 0 \/ x = << baudrate, version, background >>} :
        Commit(begin(Enter("begin"), c[1], c[2], c[3]))

End == Commit(end(Enter("end")))

\* The behaviours of S in which the bus never supplies enough bytes: no break
\* echo, or a break echo and then too few frame bytes.
Starved(S) == {b \in S : b.brk = "none" \/ (b.brk = "echo" /\ b.frame.kind = "short")}

\* In the actions below starve tells whether the bus is such a bus.
Narrow(starve, S) == IF starve THEN Starved(S) ELSE S

SendMasterRequestOn(starve) ==
    /\ nReq < MaxRequests
    /\ \E id \in ArgsOf(IDs), data \in ArgsOf(AllPayloads) :
         \E bus \in BusOf(Narrow(starve, BusBehaviours(Len(data)))) :
           Commit(sendMasterRequest(Call("sendMasterRequest"), id, data, bus))

ReceiveSlaveResponseOn(starve) ==
    /\ nReq < MaxRequests
    /\ \E id \in ArgsOf(IDs), n \in ArgsOf(0..MaxData), h \in Handlers :
         \E bus \in BusOf(Narrow(starve, BusBehaviours(n))) :
           Commit(receiveSlaveResponse(Call("receiveSlaveResponse"), id, n, h, bus))

ReceiveSlaveResponseBufOn(starve) ==
    /\ nReq < MaxRequests
    /\ \E id \in ArgsOf(IDs), n \in ArgsOf(0..MaxData), b \in DOMAIN userBuf :
         \E bus \in BusOf(Narrow(starve, BusBehaviours(n))) :
           Commit(receiveSlaveResponseBuf(Call("receiveSlaveResponseBuf"), id, n, b, bus))

\* The scheduler runs a registered one-shot task: LIN_masterN_send()
RunSendOn(starve) ==
    /\ tasks[wrapperSend].on
    /\ \E b \in (IF state = LIN_STATE_BREAK THEN Narrow(starve, BusBehaviours(0))
                  ELSE One(Narrow(starve, BusBehaviours(0)))) :
          Commit(handlerSend([Enter("handlerSend") EXCEPT !.tasks[wrapperSend] = NoTask],
                             b.brk))

\* The scheduler runs a registered one-shot task: LIN_masterN_receive()
RunReceiveOn(starve) ==
    /\ tasks[wrapperReceive].on
    /\ \E b \in (IF state = LIN_STATE_FRAME THEN Narrow(starve, BusBehaviours(lenRx - 4))
                  ELSE One(Narrow(starve, BusBehaviours(0)))) :
          Commit(handlerReceive([Enter("handlerReceive") EXCEPT !.tasks[wrapperReceive] = NoTask],
                                b.frame))

SendMasterRequest       == SendMasterRequestOn(FALSE)
ReceiveSlaveResponse    == ReceiveSlaveResponseOn(FALSE)
ReceiveSlaveResponseBuf == ReceiveSlaveResponseBufOn(FALSE)
RunSend                 == RunSendOn(FALSE)
RunReceive              == RunReceiveOn(FALSE)

Next ==
    \/ Begin
    \/ End
    \/ SendMasterRequest
    \/ ReceiveSlaveResponse
    \/ ReceiveSlaveResponseBuf
    \/ RunSend
    \/ RunReceive

Spec == Init /\ [][Next]_vars

---------------------------------------------------------------------------
(* A bus that never supplies enough bytes: no break echo, or a break echo   *)
(* and then too few frame bytes.  The scheduler runs every registered step. *)

NextStarved ==
    \/ (state = LIN_STATE_OFF /\ Begin)
    \/ SendMasterRequestOn(TRUE)
    \/ ReceiveSlaveResponseOn(TRUE)
    \/ ReceiveSlaveResponseBufOn(TRUE)
    \/ RunSendOn(TRUE)
    \/ RunReceiveOn(TRUE)

SpecStarved ==
    /\ Init
    /\ [][NextStarved]_vars
    /\ WF_vars(RunSendOn(TRUE))
    /\ WF_vars(RunReceiveOn(TRUE))

---------------------------------------------------------------------------
(* Vocabulary of the properties *)

Has(p, tag) == \E i \in 1..Len(p) : p[i] = tag
Last(p)     == IF p = << >> THEN "" ELSE p[Len(p)]

RequestOps == {"sendMasterRequest", "receiveSlaveResponse", "receiveSlaveResponseBuf"}
StepOps    == {"handlerSend", "handlerReceive"}
FailTags   == {"rejected", "send:state", "send:timeout", "send:echo",
               "recv:state", "recv:timeout", "recv:echo", "recv:chk"}

\* The step just taken is a call of one of the three request operations
RequestCall == nReq' = nReq + 1 /\ path'[1] \in RequestOps
InFlight    == state \in {LIN_STATE_BREAK, LIN_STATE_FRAME}
Zeroed(buf) == \A i \in DOMAIN buf : buf[i] = 0

\* The flag that classifies a failure of a transaction
FlagOf(tag) ==
    CASE tag \in {"send:timeout", "recv:timeout"} -> LIN_ERROR_TIMEOUT
      [] tag \in {"send:echo", "recv:echo"}       -> LIN_ERROR_ECHO
      [] tag = "recv:chk"                         -> LIN_ERROR_CHK
      [] OTHER                                    -> LIN_ERROR_STATE

---------------------------------------------------------------------------
(* Claims *)

\* C1: any request call made while the state is not Idle adds StateError,
\* sets the state to Idle, clears the whole receive buffer, returns
\* StateError and creates no transaction: nothing is written, the baud rate
\* and the registered tasks stay as they are, and the transmit buffer, the
\* frame kind and the handler are not replaced.
C1_RejectedRequest ==
    [][ (state # LIN_STATE_IDLE /\ RequestCall) =>
          /\ error' = error \cup {LIN_ERROR_STATE}
          /\ state' = LIN_STATE_IDLE
          /\ Zeroed(bufRx')
          /\ ret' = {LIN_ERROR_STATE}
          /\ wire' = wire /\ serialBaud' = serialBaud /\ tasks' = tasks
          /\ bufTx' = bufTx /\ lenTx' = lenTx /\ frameType' = frameType
          /\ rx_handler' = rx_handler ]_vars

\* C2: a request call made while a transaction is in flight returns
\* StateError and leaves the transmit buffer, the receive buffer and both
\* lengths as they were.
C2_StateExclusivity ==
    [][ (InFlight /\ RequestCall) =>
          /\ ret' = {LIN_ERROR_STATE}
          /\ bufTx' = bufTx /\ lenTx' = lenTx
          /\ bufRx' = bufRx /\ lenRx' = lenRx ]_vars

\* C3: the caller's handler is invoked exactly once when a slave response
\* completes successfully, is not invoked by any step that ends in a failure,
\* and is never invoked for a master request.
C3_HandlerExactlyOnce ==
    [][ /\ Len(calls') <= 1
        /\ calls' # << >> => /\ frameType' = LIN_SLAVE_RESPONSE
                             /\ calls'[1].h = rx_handler'
        /\ (Last(path') = "recv:ok" /\ frameType' = LIN_SLAVE_RESPONSE) => Len(calls') = 1
        /\ (Last(path') # "recv:ok" /\ path'[1] \in RequestOps /\ Has(path', "accepted"))
              => calls' = << >>
        /\ (Last(path') # "recv:ok" /\ ~(path'[1] \in RequestOps /\ Has(path', "accepted")))
              => calls' = calls ]_vars

C3_Witness ==
    /\ state = LIN_STATE_IDLE /\ Last(path) = "recv:ok"
    /\ Len(calls) = 1 /\ calls[1].len = MaxData

\* C4: no request call made while a transaction is in flight aborts it: the
\* state stays BreakSent or FrameInFlight as it was.
C4_NoCancellation ==
    [][ (InFlight /\ RequestCall) => state' = state ]_vars

\* C5: every deferred step that is registered was registered by the current
\* transaction: when a request has been accepted no step of an earlier
\* transaction is still pending.
C5_NoStaleStep ==
    \A w \in DOMAIN tasks : tasks[w].on => ~tasks[w].stale

\* C6: across calls of the requests and the step handlers the error set only
\* grows, and a call that takes no failure path leaves it as it was.
C6_ErrorLatched ==
    [][ (path'[1] \in RequestOps \cup StepOps) =>
          /\ error \subseteq error'
          /\ (\A i \in 1..Len(path') : path'[i] \notin FailTags) => error' = error ]_vars

C6_Witness ==
    /\ Last(path) = "recv:ok"
    /\ Cardinality(error) >= 2
    /\ state = LIN_STATE_IDLE

\* C7: a failed transaction ends in Idle and adds the one flag that
\* classifies the failure and no other flag.
C7_SingleClassification ==
    [][ \A t \in {"send:timeout", "send:echo", "recv:timeout", "recv:echo", "recv:chk"} :
          Has(path', t) => /\ state' = LIN_STATE_IDLE
                           /\ FlagOf(t) \in error'
                           /\ error' \ error \subseteq {FlagOf(t)} ]_vars

\* C8: after every failure path every byte of the receive buffer is 0.
C8_RxZeroedAfterFailure ==
    Last(path) \in FailTags => Zeroed(bufRx)

\* C9: the receive step in state FrameInFlight reports a timeout exactly when
\* fewer than lenRx-1 bytes are available when its wait ends; on a timeout the
\* state is Idle and the receive buffer holds none of the received bytes.
C9_TimeoutIffTooFew ==
    [][ LET timedOut == Has(path', "recv:timeout")
            ran      == timedOut \/ Has(path', "recv:ok") \/ Has(path', "recv:echo")
                          \/ Has(path', "recv:chk")
            avail    == IF timedOut THEN Len(rxq') ELSE Len(rxq') + lenRx' - 1
        IN  ran => /\ timedOut <=> (avail < lenRx' - 1)
                   /\ timedOut => LIN_ERROR_TIMEOUT \in error'
                   /\ LIN_ERROR_TIMEOUT \in error' \ error => timedOut
                   /\ timedOut => /\ state' = LIN_STATE_IDLE
                                  /\ \A i \in 0..(lenRx' - 1) : bufRx'[i] = 0 ]_vars

\* C10: on a bus that never supplies enough bytes an accepted transaction
\* does not stay in flight: the engine comes back to Idle with TimeoutError
\* set, in blocking mode by the time the request returns.
C10_TimeoutLiveness ==
    /\ [](InFlight => <>(state = LIN_STATE_IDLE /\ LIN_ERROR_TIMEOUT \in error))
    /\ []((path # << >> /\ path[1] \in RequestOps /\ Has(path, "accepted") /\ ~background)
            => (state = LIN_STATE_IDLE /\ LIN_ERROR_TIMEOUT \in error))

\* C11: in every transaction the break byte 0x00 is the first byte written
\* and is written at half the configured baud rate; the frame body is written
\* only by the step that read and confirmed the break echo, after the
\* channel is back at the full configured baud rate, and every byte of the
\* body is written at the full rate, in the order of the transmit buffer.
C11_BreakSequencing ==
    [][ (Has(path', "accepted") \/ Has(path', "send:ok")) =>
          /\ wire' # << >>
          /\ wire'[1] = << 0, baudrate' \div 2 >>
          /\ \A i \in 2..Len(wire') : wire'[i] = << bufTx'[i - 1], baudrate' >>
          /\ IF Has(path', "send:ok")
             THEN /\ Len(wire') = lenTx'
                  /\ bufRx'[0] = 0
                  /\ serialBaud' = baudrate'
             ELSE /\ Len(wire') = 1
                  /\ serialBaud' = baudrate' \div 2 ]_vars

C11_Witness ==
    /\ Last(path) = "send:ok" /\ state = LIN_STATE_FRAME
    /\ baudrate > 0 /\ serialBaud = baudrate
    /\ Len(wire) = 4 + MaxData
    /\ wire[1][2] # wire[2][2]

---------------------------------------------------------------------------
(* Properties of the receive step, stated over everything the bus may      *)
(* deliver: in background mode over the receive step that can run next, in *)
(* blocking mode over the request that can be called next.                 *)

\* The receive step of the transaction in flight, run on what the bus delivers
RecvStep(f) == handlerReceive(Enter("handlerReceive"), f)

\* The bytes the UART holds when the wait of the receive step of machine s ends
Heard(s, f) == FrameEcho(s, f)

\* Some byte of the first n bytes after the break differs from the byte written
EchoDiffers(s, heard, n) == \E i \in 1..n : heard[i] # s.bufTx[i]

\* C12: the receive step of a master request that has the whole frame
\* available adds EchoError and goes to Idle when any echoed byte (sync,
\* protected ID, data, checksum) differs from the byte written, and goes to
\* Idle with no flag added when all of them match.
C12_MasterEchoCompared ==
    /\ (state = LIN_STATE_FRAME /\ frameType = LIN_MASTER_REQUEST /\ rxq = << >>) =>
         \A f \in FrameBehaviours(lenRx - 4) :
            LET heard == Heard(Cur, f)
                r     == RecvStep(f)
            IN  Len(heard) = lenRx - 1 =>
                  /\ r.state = LIN_STATE_IDLE
                  /\ r.error = IF EchoDiffers(Cur, heard, lenTx - 1)
                               THEN error \cup {LIN_ERROR_ECHO} ELSE error
    /\ (state = LIN_STATE_IDLE /\ ~background) =>
         \A id \in IDs, data \in AllPayloads :
            \A bus \in {b \in BusBehaviours(Len(data)) : b.brk = "echo"} :
               LET r     == sendMasterRequest(Call("sendMasterRequest"), id, data, bus)
                   heard == Heard(r, bus.frame)
               IN  Len(heard) = r.lenRx - 1 =>
                     /\ r.state = LIN_STATE_IDLE
                     /\ r.error = IF EchoDiffers(r, heard, r.lenTx - 1)
                                  THEN error \cup {LIN_ERROR_ECHO} ELSE error

C12_Witness ==
    /\ frameType = LIN_MASTER_REQUEST /\ lenTx = 4 + MaxData
    /\ Has(path, "send:ok") /\ Last(path) = "recv:echo"
    /\ state = LIN_STATE_IDLE /\ LIN_ERROR_ECHO \in error

\* What C13 asks of the result r of a receive step of a slave response that
\* had the bytes heard available, started with the error set err.
SlaveEchoJudged(s, heard, r, err) ==
    IF EchoDiffers(s, heard, 2)
    THEN /\ Last(r.path) = "recv:echo"
         /\ r.error = err \cup {LIN_ERROR_ECHO}
    ELSE /\ Last(r.path) \in {"recv:ok", "recv:chk"}
         /\ r.error \subseteq err \cup {LIN_ERROR_CHK}

\* C13: the receive step of a slave response compares only the written
\* header (sync, protected ID) with the echo: a differing header byte gives
\* EchoError, and the data and checksum bytes of the slave never give
\* EchoError whatever they are; they can only give ChecksumError.
C13_SlaveHeaderOnly ==
    /\ (state = LIN_STATE_FRAME /\ frameType = LIN_SLAVE_RESPONSE /\ rxq = << >>) =>
         \A f \in FrameBehaviours(lenRx - 4) :
            LET heard == Heard(Cur, f)
            IN  Len(heard) = lenRx - 1 => SlaveEchoJudged(Cur, heard, RecvStep(f), error)
    /\ (state = LIN_STATE_IDLE /\ ~background) =>
         \A id \in IDs, n \in 0..MaxData, h \in Handlers :
            \A bus \in {b \in BusBehaviours(n) : b.brk = "echo"} :
               LET r     == receiveSlaveResponse(Call("receiveSlaveResponse"), id, n, h, bus)
                   heard == Heard(r, bus.frame)
               IN  Len(heard) = r.lenRx - 1 => SlaveEchoJudged(r, heard, r, error)

C13_Witness ==
    /\ frameType = LIN_SLAVE_RESPONSE /\ lenRx = 4 + MaxData
    /\ Has(path, "send:ok") /\ Last(path) = "recv:chk"
    /\ LIN_ERROR_ECHO \notin error /\ state = LIN_STATE_IDLE

\* What C14 asks of the result r of a receive step of a slave response with
\* numData data bytes that had the bytes heard available, started with the
\* error set err and with no handler invocation logged.
SlaveChecksumJudged(s, heard, r, err) ==
    LET numData == s.lenRx - 4
        pid     == heard[2]
        data    == SubSeq(heard, 3, 2 + numData)
        chk     == heard[3 + numData]
    IN  IF chk # checksum(s.version, pid, data)
        THEN /\ r.error = err \cup {LIN_ERROR_CHK}
             /\ r.calls = << >>
             /\ r.state = LIN_STATE_IDLE
        ELSE /\ r.error = err
             /\ Len(r.calls) = 1
             /\ r.state = LIN_STATE_IDLE

\* C14: when the header echo of a slave response matches, the receive step
\* recomputes the checksum over the received protected ID and data bytes; if
\* it differs from the received checksum byte the step adds ChecksumError,
\* does not invoke the handler and goes to Idle; if it is equal no
\* ChecksumError is added.
C14_SlaveChecksumJudged ==
    /\ (state = LIN_STATE_FRAME /\ frameType = LIN_SLAVE_RESPONSE /\ rxq = << >>
          /\ calls = << >>) =>
         \A f \in FrameBehaviours(lenRx - 4) :
            LET heard == Heard(Cur, f)
            IN  (Len(heard) = lenRx - 1 /\ ~EchoDiffers(Cur, heard, 2)) =>
                   SlaveChecksumJudged(Cur, heard, RecvStep(f), error)
    /\ (state = LIN_STATE_IDLE /\ ~background) =>
         \A id \in IDs, n \in 0..MaxData, h \in Handlers :
            \A bus \in {b \in BusBehaviours(n) : b.brk = "echo"} :
               LET r     == receiveSlaveResponse(Call("receiveSlaveResponse"), id, n, h, bus)
                   heard == Heard(r, bus.frame)
               IN  (Len(heard) = r.lenRx - 1 /\ ~EchoDiffers(r, heard, 2)) =>
                      SlaveChecksumJudged(r, heard, r, error)

C14_Witness ==
    /\ frameType = LIN_SLAVE_RESPONSE /\ version = LIN_V2
    /\ path = << "handlerReceive", "recv:chk" >>
    /\ LIN_ERROR_CHK \in error /\ calls = << >> /\ state = LIN_STATE_IDLE

---------------------------------------------------------------------------
(* Whole transactions on a bus that echoes every written byte *)

\* The bus echoes the break and the frame body; a slave supplies its data and
\* the right checksum.
Faithful(S) == {b \in S : b.brk = "echo" /\ b.frame.kind = "exact"}

\* The machine after the deferred steps of the transaction started by the
\* request that returned r0 have run (in blocking mode the request ran them).
Completed(r0, bus) ==
    IF r0.background
    THEN handlerReceive(handlerSend(r0, bus.brk), bus.frame)
    ELSE r0

\* C15: on an engine that was begun and is Idle, a master request for any ID
\* and payload whose bytes are all echoed returns success, adds no error flag
\* and ends in Idle.
C15_MasterRequestSucceeds ==
    (state = LIN_STATE_IDLE /\ baudrate > 0) =>
       \A id \in IDs, data \in AllPayloads :
          \A bus \in Faithful(BusBehaviours(Len(data))) :
             LET r0 == sendMasterRequest(Call("sendMasterRequest"), id, data, bus)
                 r  == Completed(r0, bus)
             IN  /\ r0.ret = {LIN_SUCCESS}
                 /\ r.error = error
                 /\ r.state = LIN_STATE_IDLE
                 /\ Last(r.path) = "recv:ok"

\* C16: on an engine that was begun and is Idle, a slave response for any ID
\* and expected length whose header is echoed and whose slave supplies that
\* many data bytes and their checksum invokes the handler exactly once, with
\* that length and exactly those bytes in order, adds no error flag and ends
\* in Idle.
C16_SlaveResponseDelivered ==
    (state = LIN_STATE_IDLE /\ baudrate > 0) =>
       \A id \in IDs, n \in 0..MaxData, h \in Handlers :
          \A bus \in Faithful(BusBehaviours(n)) :
             LET r0 == receiveSlaveResponse(Call("receiveSlaveResponse"), id, n, h, bus)
                 r  == Completed(r0, bus)
             IN  /\ Len(r.calls) = 1
                 /\ r.calls[1].h = h
                 /\ r.calls[1].len = n
                 /\ r.calls[1].data = bus.frame.slave
                 /\ r.error = error
                 /\ r.state = LIN_STATE_IDLE

C16_Witness ==
    /\ frameType = LIN_SLAVE_RESPONSE /\ Last(path) = "recv:ok"
    /\ baudrate > 0 /\ error = {} /\ state = LIN_STATE_IDLE
    /\ calls = << [h |-> rx_handler, len |-> MaxData,
                   data |-> [i \in 1..MaxData |-> bufRx[2 + i]], at |-> LIN_STATE_FRAME] >>
    /\ rx_handler \in Handlers

---------------------------------------------------------------------------
(* The frame codec on its own: protectID and checksum applied to arguments *)
(* drawn from bounded sets, the engine left as constructed.                *)

MaxCodecData == 2

CodecBytes    == {0, 1, 128, 255}
CodecPayloads == UNION {[1..n -> CodecBytes] : n \in 0..MaxCodecData}
\* Protected IDs: an ordinary one, the one of ID 0 and the two diagnostic ones
CodecPIDs     == {protectID(i) : i \in {0, 16, 60, 61}}
\* What a protected ID may be replaced by: another protected ID, or the ID 16
\* with both parity bits cleared
CorruptPIDs   == CodecPIDs \cup {16}

CodecProblems ==
    {[NoCodec EXCEPT !.op = "protectID", !.id = i] : i \in 0..255}
      \cup {[NoCodec EXCEPT !.op = "checksum", !.ver = v, !.id = q, !.data = d] :
               v \in {LIN_V1, LIN_V2}, q \in CodecPIDs, d \in CodecPayloads}

InitCodec == InitEngine /\ codec \in CodecProblems

\* pid = protectID(id), and once more on its own result
ProtectIDStep ==
    /\ codec.op = "protectID" /\ Len(codec.out) < 2
    /\ codec' = [codec EXCEPT !.out = Append(@, protectID(IF @ = << >> THEN codec.id
                                                         ELSE @[Len(@)]))]
    /\ UNCHANGED engineVars

\* chk = checksum(id, numData, data) under the configured version
ChecksumStep ==
    /\ codec.op = "checksum" /\ codec.chk = << >>
    /\ codec' = [codec EXCEPT !.chk = << checksum(codec.ver, codec.id, codec.data) >>]
    /\ UNCHANGED engineVars

\* The same call on an engine configured for LIN_V1
ClassicStep ==
    /\ codec.op = "checksum" /\ codec.classic = << >>
    /\ codec' = [codec EXCEPT !.classic = << checksum(LIN_V1, codec.id, codec.data) >>]
    /\ UNCHANGED engineVars

\* The arguments with one payload byte or the protected ID replaced by a
\* different value
Corruptions(c) ==
    {[id |-> c.id, data |-> [c.data EXCEPT ![i] = b], at |-> i] :
        i \in 1..Len(c.data), b \in CodecBytes} \cup
    {[id |-> q, data |-> c.data, at |-> 0] : q \in CorruptPIDs}

\* The receiver's call of checksum on a frame with one byte corrupted
CorruptStep ==
    /\ codec.op = "checksum" /\ codec.chk # << >> /\ codec.bad = << >>
    /\ \E x \in Corruptions(codec) :
          /\ << x.id, x.data >> # << codec.id, codec.data >>
          /\ codec' = [codec EXCEPT !.bad = << x >>,
                                    !.chk2 = << checksum(codec.ver, x.id, x.data) >>]
    /\ UNCHANGED engineVars

NextCodec == ProtectIDStep \/ ChecksumStep \/ ClassicStep \/ CorruptStep

SpecCodec == InitCodec /\ [][NextCodec]_vars

\* C17: for every 8-bit id, protectID(id) keeps the low 6 bits of id, has
\* bit 6 = ID0 xor ID1 xor ID2 xor ID4 and bit 7 = not (ID1 xor ID3 xor ID4 xor
\* ID5), and applying protectID to its own result gives the same value.
C17_ProtectID ==
    (codec.op = "protectID" /\ codec.out # << >>) =>
       LET id == codec.id
           p  == codec.out[1]
       IN  /\ p \in 0..255
           /\ p % 64 = id % 64
           /\ Bit(p, 6) = (Bit(id, 0) + Bit(id, 1) + Bit(id, 2) + Bit(id, 4)) % 2
           /\ Bit(p, 7) = 1 - ((Bit(id, 1) + Bit(id, 3) + Bit(id, 4) + Bit(id, 5)) % 2)
           /\ Len(codec.out) = 2 => codec.out[2] = p

C17_Witness ==
    /\ codec.op = "protectID" /\ codec.id = 16 + 128
    /\ codec.out = << 16 + 64, 16 + 64 >>

\* The end-around-carry sum of bytes that add up to S, in closed form: 0 for
\* S = 0, else the value in 1..255 congruent to S modulo 255.
EndAround(S) == IF S = 0 THEN 0 ELSE ((S - 1) % 255) + 1

Diagnostic(q) == q \in {60, 125}

\* C18: for every version, protected ID and payload, checksum is the one's
\* complement of the low byte of the end-around-carry sum of the payload
\* bytes, the protected ID being part of the sum exactly when the version is
\* V2 and the protected ID is neither 0x3C nor 0x7D.
C18_ChecksumValue ==
    (codec.op = "checksum" /\ codec.chk # << >>) =>
       LET included == IF codec.ver = LIN_V2 /\ ~Diagnostic(codec.id) THEN codec.id ELSE 0
       IN  codec.chk[1] = 255 - EndAround(included + SumBytes(codec.data))

C18_Witness ==
    /\ codec.op = "checksum" /\ codec.ver = LIN_V2 /\ codec.id = 80
    /\ codec.data = << 255, 255 >>
    /\ codec.chk = << 175 >>

\* C19 as stated: replacing any one payload byte, or the protected ID, by a
\* different value changes the value checksum returns.
C19_AnyCorruptionDetected ==
    (codec.op = "checksum" /\ codec.bad # << >>) => codec.chk2 # codec.chk

\* C19 as the program has it: replacing one payload byte by a different value
\* changes the checksum unless one of the two values is 0x00 and the other
\* 0xFF; replacing the protected ID by a different protected ID changes the
\* checksum when the version is V2 and at most one of the two is a diagnostic
\* ID (0x3C, 0x7D).
C19_CorruptionDetected ==
    (codec.op = "checksum" /\ codec.bad # << >>) =>
       LET x == codec.bad[1]
       IN  IF x.at > 0
           THEN {codec.data[x.at], x.data[x.at]} # {0, 255} => codec.chk2 # codec.chk
           ELSE (/\ codec.ver = LIN_V2
                 /\ protectID(x.id) = x.id /\ protectID(codec.id) = codec.id
                 /\ ~(Diagnostic(x.id) /\ Diagnostic(codec.id)))
                   => codec.chk2 # codec.chk

C19_Witness ==
    /\ codec.op = "checksum" /\ codec.bad # << >> /\ codec.ver = LIN_V2
    /\ codec.bad[1].at = 0 /\ codec.id = 80 /\ codec.bad[1].id = 128
    /\ codec.chk2 # codec.chk

\* C20: for the protected IDs 0x3C and 0x7D and any payload, checksum under
\* version V2 is the value checksum returns for the same payload under V1.
C20_DiagnosticClassic ==
    (/\ codec.op = "checksum" /\ codec.ver = LIN_V2 /\ Diagnostic(codec.id)
     /\ codec.chk # << >> /\ codec.classic # << >>) => codec.chk = codec.classic

C20_Witness ==
    /\ codec.op = "checksum" /\ codec.ver = LIN_V2 /\ codec.id = 125
    /\ Len(codec.data) = MaxCodecData
    /\ codec.chk # << >> /\ codec.chk = codec.classic

---------------------------------------------------------------------------
(* Lifecycle *)

\* C21: while the state is Off no call of a request or of a step handler
\* changes the state, and a request is accepted only on an engine whose UART
\* was started by begin and not ended since.
C21_OffUntilBegin ==
    [][ /\ (state = LIN_STATE_OFF /\ path'[1] \in RequestOps \cup StepOps)
             => state' = LIN_STATE_OFF
        /\ (path'[1] \in RequestOps /\ Has(path', "accepted")) => serialBaud # 0 ]_vars

\* C22: end, called in any state, leaves the engine in Off with the transmit
\* and the receive buffer all zero.
C22_EndDiscards ==
    path = << "end" >> => /\ state = LIN_STATE_OFF
                          /\ Zeroed(bufTx)
                          /\ Zeroed(bufRx)

---------------------------------------------------------------------------
(* Polling the state (background operation, example LIN_background.ino) *)

\* inline bool getState(void) { return state; }
\* The conversion of LIN_status_t to bool gives false (0) for 0 and true (1)
\* for every other value.
getState(s) == IF s.state # 0 THEN 1 ELSE 0

\* The caller polls the state; the value polled is kept in ret
GetState == Commit([Enter("getState") EXCEPT !.ret = {getState(Cur)}])

NextPoll ==
    \/ Begin
    \/ End
    \/ SendMasterRequestOn(TRUE)
    \/ ReceiveSlaveResponseOn(TRUE)
    \/ ReceiveSlaveResponseBufOn(TRUE)
    \/ RunSendOn(TRUE)
    \/ RunReceiveOn(TRUE)
    \/ GetState

SpecPoll == Init /\ [][NextPoll]_vars

\* C23: the value getState returns tells the current state from each of the
\* other three states: it is not the value returned in Off, Idle, BreakSent or
\* FrameInFlight when the engine is in another one of them.
C23_StateQuery ==
    (path # << >> /\ path[1] = "getState") =>
       \A st \in {LIN_STATE_OFF, LIN_STATE_IDLE, LIN_STATE_BREAK, LIN_STATE_FRAME} \ {state} :
          getState([Cur EXCEPT !.state = st]) \notin ret

---------------------------------------------------------------------------
(* Background operation *)

\* C24: in background mode an accepted request returns in BreakSent, having
\* written the break byte and nothing else and registered the send step,
\* delayed by the break duration, as the only deferred call; the receive step
\* gets registered, and frame-body bytes get written, only by a send step
\* that succeeded.
C24_BackgroundAcceptance ==
    [][ /\ (background /\ path'[1] \in RequestOps /\ Has(path', "accepted")) =>
              /\ state' = LIN_STATE_BREAK
              /\ wire' = << << 0, baudrate \div 2 >> >>
              /\ tasks'[wrapperSend] = [on |-> TRUE, delay |-> durationBreak, stale |-> FALSE]
              /\ ~tasks'[wrapperReceive].on
        /\ (tasks'[wrapperReceive].on /\ ~tasks[wrapperReceive].on)
              => Last(path') = "send:ok"
        /\ (background /\ Len(wire') > 1) => Has(path', "send:ok") \/ wire' = wire ]_vars

---------------------------------------------------------------------------
(* Requests with more data bytes than a frame holds.  numData is a uint8_t *)
(* that neither request checks.  With numData = 9 the frame needs 13 bytes: *)
(* sendMasterRequest writes bufTx[12], one past the end of bufTx, and the   *)
(* receive step of either request reads and clears 13 bytes of bufRx.  What *)
(* the program does after an access past the end of a buffer is undefined;  *)
(* the model records the request and follows the run no further.           *)

OversizeData == [i \in 1..(BufLen - 3) |-> CHOOSE b \in DataBytes : TRUE]

sendMasterRequestOversize(s, id, data) ==
    LET numData == Len(data)
        pid == protectID(id)
        tx0 == [s.bufTx EXCEPT ![0] = 0, ![1] = 85, ![2] = pid]
        tx1 == memcpy(tx0, 3, data)
    IN  [accept(s) EXCEPT !.frameType = LIN_MASTER_REQUEST,
                          !.bufTx = tx1,
                          !.lenTx = numData + 4,
                          !.lenRx = numData + 4,
                          !.path = Append(@, "oversize"),
                          !.ret = UndefinedReturn]

receiveSlaveResponseOversize(s, id, numData, Rx_handler) ==
    LET pid == protectID(id)
    IN  [accept(s) EXCEPT !.frameType = LIN_SLAVE_RESPONSE,
                          !.bufTx = [@ EXCEPT ![0] = 0, ![1] = 85, ![2] = pid],
                          !.lenTx = 3,
                          !.lenRx = 4 + numData,
                          !.rx_handler = Rx_handler,
                          !.path = Append(@, "oversize"),
                          !.ret = UndefinedReturn]

Oversized == Has(path, "oversize")

SendMasterRequestOversize ==
    /\ state = LIN_STATE_IDLE /\ nReq < MaxRequests /\ ~Oversized
    /\ \E id \in IDs :
          Commit(sendMasterRequestOversize(Call("sendMasterRequest"), id, OversizeData))

ReceiveSlaveResponseOversize ==
    /\ state = LIN_STATE_IDLE /\ nReq < MaxRequests /\ ~Oversized
    /\ \E id \in IDs, h \in Handlers :
          Commit(receiveSlaveResponseOversize(Call("receiveSlaveResponse"), id,
                                              Len(OversizeData), h))

NextOversize ==
    \/ (~Oversized /\ Next)
    \/ SendMasterRequestOversize
    \/ ReceiveSlaveResponseOversize

SpecOversize == Init /\ [][NextOversize]_vars

\* C25: in every reachable state, whatever the arguments of the requests
\* were, the payload length is at most 8 and the transmit and the receive
\* length are at most 12, the size of the two buffers.
C25_FrameLengthBounded ==
    /\ lenTx <= BufLen
    /\ lenRx <= BufLen
    /\ lenRx > 0 => lenRx - 4 <= BufLen - 4
    /\ lenTx > 3 => lenTx - 4 <= 8

---------------------------------------------------------------------------
(* Wire format *)

\* The bytes written to the channel, in order, without the baud rate of each.
Written(w) == [i \in 1..Len(w) |-> w[i][1]]

ConfirmedBreak(S) == {b \in S : b.brk = "echo"}

\* C26: over a whole transaction whose break echo is confirmed the engine
\* writes exactly 0x00, 0x55, protectID(id), the payload and
\* checksum(protectID(id), payload) for a master request, and exactly 0x00,
\* 0x55, protectID(id) for a slave response, whatever is heard afterwards;
\* and at any time the bytes written since the last acceptance are the first
\* bytes of the frame in the transmit buffer.
C26_WireFormat ==
    /\ state = LIN_STATE_IDLE =>
         /\ \A id \in IDs, data \in AllPayloads :
               \A bus \in ConfirmedBreak(BusBehaviours(Len(data))) :
                  LET r == Completed(sendMasterRequest(Call("sendMasterRequest"),
                                                       id, data, bus), bus)
                  IN  Written(r.wire) =
                         << 0, 85, protectID(id) >> \o data
                            \o << checksum(version, protectID(id), data) >>
         /\ \A id \in IDs, n \in 0..MaxData, h \in Handlers :
               \A bus \in ConfirmedBreak(BusBehaviours(n)) :
                  LET r == Completed(receiveSlaveResponse(Call("receiveSlaveResponse"),
                                                          id, n, h, bus), bus)
                  IN  Written(r.wire) = << 0, 85, protectID(id) >>
    /\ Len(wire) \in {0, 1, lenTx}
    /\ \A i \in 1..Len(wire) : wire[i][1] = bufTx[i - 1]

C26_Witness ==
    /\ frameType = LIN_MASTER_REQUEST /\ Has(path, "send:ok")
    /\ Len(wire) = MaxData + 4
    /\ Written(wire) = << 0, 85, bufTx[2] >> \o [i \in 1..MaxData |-> bufTx[2 + i]]
                          \o << bufTx[3 + MaxData] >>
    /\ \E id \in IDs : bufTx[2] = protectID(id)

---------------------------------------------------------------------------
(* Return values of the requests *)

\* C27: the value returned by each of the three requests is StateError if
\* and only if the engine was not Idle at the call, and is the success value
\* when the request was accepted.
C27_ReturnTellsAcceptance ==
    [][ RequestCall =>
          /\ (state # LIN_STATE_IDLE) => ret' = {LIN_ERROR_STATE}
          /\ (state = LIN_STATE_IDLE) => LIN_ERROR_STATE \notin ret'
          /\ Has(path', "accepted") => ret' = {LIN_SUCCESS} ]_vars

---------------------------------------------------------------------------
(* The buffer overload of receiveSlaveResponse, with two caller buffers *)

TwoBufs == {"A", "B"}

InitBuffers == InitFields /\ userBuf = [b \in TwoBufs |-> << >>] /\ codec = NoCodec

NextBuffers ==
    \/ Begin
    \/ End
    \/ ReceiveSlaveResponseBuf
    \/ RunSend
    \/ RunReceive

SpecBuffers == InitBuffers /\ [][NextBuffers]_vars

\* The buffer b of machine r holds the bytes in its first places and is
\* otherwise what it was in machine s; no other buffer differs.
CopiedInto(s, r, b, bytes) ==
    /\ Len(r.userBuf[b]) = IF Len(s.userBuf[b]) > Len(bytes)
                           THEN Len(s.userBuf[b]) ELSE Len(bytes)
    /\ \A i \in 1..Len(bytes) : r.userBuf[b][i] = bytes[i]
    /\ \A i \in (Len(bytes) + 1)..Len(s.userBuf[b]) : r.userBuf[b][i] = s.userBuf[b][i]
    /\ \A c \in DOMAIN s.userBuf \ {b} : r.userBuf[c] = s.userBuf[c]

\* C28: a buffer request for any ID, length and buffer, on any bus, copies
\* exactly the received data bytes into the caller's buffer, once, when the
\* transaction completes successfully, and leaves every buffer unchanged
\* when the request is rejected or the transaction fails; a step changes a
\* buffer only by completing a buffer request successfully, and a buffer
\* request made while a transaction is in flight ends that transaction.
C28_BufferOverload ==
    /\ \A id \in IDs, n \in 0..MaxData, b \in DOMAIN userBuf :
          \A bus \in BusBehaviours(n) :
             \A r \in {Completed(receiveSlaveResponseBuf(
                                    Call("receiveSlaveResponseBuf"), id, n, b, bus), bus)} :
                 IF Last(r.path) = "recv:ok"
                 THEN /\ state = LIN_STATE_IDLE
                      /\ CopiedInto(Cur, r, b, bus.frame.slave)
                      /\ r.calls = << [h |-> wrapperDefaultCallback, len |-> n,
                                       data |-> bus.frame.slave,
                                       at |-> LIN_STATE_FRAME] >>
                      /\ r.state = LIN_STATE_IDLE
                 ELSE /\ r.userBuf = userBuf
                      /\ r.calls = IF Has(r.path, "accepted") THEN << >> ELSE calls
                      /\ state # LIN_STATE_IDLE => r.state = LIN_STATE_IDLE
    /\ \A brk \in BreakBehaviours :
          handlerSend(Enter("handlerSend"), brk).userBuf = userBuf
    /\ \A f \in FrameBehaviours(IF lenRx >= 4 THEN lenRx - 4 ELSE 0) :
          \A r \in {RecvStep(f)} :
             r.userBuf # userBuf =>
                /\ Last(r.path) = "recv:ok"
                /\ rx_handler = wrapperDefaultCallback
                /\ \A c \in DOMAIN userBuf \ {dataPtr} : r.userBuf[c] = userBuf[c]

C28_Witness ==
    /\ Last(path) = "recv:ok" /\ rx_handler = wrapperDefaultCallback
    /\ lenRx = MaxData + 4
    /\ Len(calls) = 1
    /\ userBuf[dataPtr] = [i \in 1..MaxData |-> bufRx[2 + i]]
    /\ \E c \in DOMAIN userBuf \ {dataPtr} : userBuf[c] = << >>

---------------------------------------------------------------------------
(* The steps one at a time *)

SendStep(brk) == handlerSend(Enter("handlerSend"), brk)

\* The frame after its break byte, as written at the configured baud rate
FrameBody(s) == [i \in 1..(s.lenTx - 1) |-> << s.bufTx[i], s.baudrate >>]

\* C29: the send step in state BreakSent reads one byte as the break echo.
\* If the byte is 0x00 it restores the baud rate, writes the rest of the
\* frame and moves to FrameInFlight; if it is any other value it adds
\* EchoError, moves to Idle and writes nothing; if no byte is available it
\* adds TimeoutError, moves to Idle and writes nothing.  In blocking mode,
\* where the request runs the send step itself, the same is seen after the
\* request.
C29_SendStep ==
    /\ (state = LIN_STATE_BREAK /\ rxq = << >>) =>
         \A brk \in BreakBehaviours :
            \A heard \in {BreakEcho(Cur, brk)}, r \in {SendStep(brk)} :
               IF heard = << >>
               THEN /\ r.error = error \cup {LIN_ERROR_TIMEOUT}
                    /\ r.state = LIN_STATE_IDLE
                    /\ r.wire = wire /\ r.serialBaud = serialBaud
                    /\ r.rxq = << >>
               ELSE /\ r.rxq = Tail(heard)
                    /\ r.bufRx[0] = (IF r.state = LIN_STATE_FRAME THEN Head(heard) ELSE 0)
                    /\ IF Head(heard) = 0
                       THEN /\ r.error = error
                            /\ r.state = LIN_STATE_FRAME
                            /\ r.serialBaud = baudrate
                            /\ r.wire = wire \o FrameBody(Cur)
                       ELSE /\ r.error = error \cup {LIN_ERROR_ECHO}
                            /\ r.state = LIN_STATE_IDLE
                            /\ r.wire = wire /\ r.serialBaud = serialBaud
    /\ (state = LIN_STATE_IDLE /\ ~background) =>
         \A id \in IDs, n \in 0..MaxData, h \in Handlers :
            \A bus \in BusBehaviours(n) :
               \A r \in {receiveSlaveResponse(Call("receiveSlaveResponse"), id, n, h, bus)} :
                  /\ r.state = LIN_STATE_IDLE
                  /\ bus.brk = "none"  => /\ LIN_ERROR_TIMEOUT \in r.error
                                          /\ LIN_ERROR_ECHO \notin r.error \ error
                                          /\ r.wire = << << 0, baudrate \div 2 >> >>
                  /\ bus.brk = "noise" => /\ LIN_ERROR_ECHO \in r.error
                                          /\ LIN_ERROR_TIMEOUT \notin r.error \ error
                                          /\ r.wire = << << 0, baudrate \div 2 >> >>
                  /\ bus.brk = "echo"  => /\ Has(r.path, "send:ok")
                                          /\ r.wire = << << 0, baudrate \div 2 >> >> \o FrameBody(r)

C29_Witness ==
    /\ path = << "handlerSend", "send:echo" >>
    /\ state = LIN_STATE_IDLE /\ LIN_ERROR_ECHO \in error
    /\ wire = << << 0, baudrate \div 2 >> >>
    /\ serialBaud = baudrate \div 2

\* What a step called in the wrong state leaves of machine s: StateError
\* added, state Idle, the receive buffer cleared over the receive length.
WrongState(s, tag) ==
    [s EXCEPT !.error = @ \cup {LIN_ERROR_STATE},
              !.state = LIN_STATE_IDLE,
              !.bufRx = memset0(@, s.lenRx),
              !.path  = Append(@, tag)]

\* C30: handlerSend called when the state is not BreakSent, and
\* handlerReceive called when the state is not FrameInFlight, add StateError
\* and set the state to Idle; they read nothing from and write nothing to
\* the channel, do not change the baud rate, register no deferred call and do
\* not invoke the receive handler, whatever the bus holds.
C30_WrongStateStep ==
    /\ state # LIN_STATE_BREAK =>
         \A brk \in BreakBehaviours :
            \A r \in {SendStep(brk)} :
               /\ r = WrongState(Enter("handlerSend"), "send:state")
               /\ r.rxq = rxq /\ r.wire = wire /\ r.serialBaud = serialBaud
               /\ r.tasks = tasks /\ r.calls = calls /\ r.userBuf = userBuf
    /\ state # LIN_STATE_FRAME =>
         \A f \in FrameBehaviours(0) \cup FrameBehaviours(MaxData) :
            \A r \in {RecvStep(f)} :
               /\ r = WrongState(Enter("handlerReceive"), "recv:state")
               /\ r.rxq = rxq /\ r.wire = wire /\ r.serialBaud = serialBaud
               /\ r.tasks = tasks /\ r.calls = calls /\ r.userBuf = userBuf

C30_Witness ==
    /\ path = << "handlerReceive", "recv:state" >>
    /\ state = LIN_STATE_IDLE /\ LIN_ERROR_STATE \in error
    /\ serialBaud = baudrate \div 2 /\ serialBaud # 0
    /\ wire = << << 0, baudrate \div 2 >> >>
    /\ calls = << >>

---------------------------------------------------------------------------
(* Blocking operation *)

\* C31: in blocking mode every call of a request returns with the state
\* Idle, whatever the channel did and whether the request was accepted or
\* rejected.
C31_BlockingConsumed ==
    [][ (RequestCall /\ ~background) => state' = LIN_STATE_IDLE ]_vars

C31_Witness ==
    /\ ~background /\ baudrate > 0
    /\ path = << "receiveSlaveResponse", "accepted", "send:ok", "recv:timeout" >>
    /\ state = LIN_STATE_IDLE

---------------------------------------------------------------------------
(* Unread input *)

\* The machine with nothing unread in the UART
Flushed(s) == [s EXCEPT !.rxq = << >>]

\* C32: an accepted request discards all unread input before it writes the
\* break byte: the request, and the steps that follow it, do what they would
\* have done had nothing been left unread, so no byte left by an earlier
\* transaction is taken as an echo of the new one.  A rejected request
\* discards nothing.
C32_StaleInputDiscarded ==
    /\ state = LIN_STATE_IDLE =>
         /\ \A id \in IDs, data \in AllPayloads :
               \A bus \in BusBehaviours(Len(data)) :
                  \A r0 \in {sendMasterRequest(Call("sendMasterRequest"), id, data, bus)} :
                     /\ r0 = sendMasterRequest(Flushed(Call("sendMasterRequest")),
                                               id, data, bus)
                     /\ r0.background => r0.rxq = << >>
                     /\ Completed(r0, bus) = Completed(sendMasterRequest(
                              Flushed(Call("sendMasterRequest")), id, data, bus), bus)
         /\ \A id \in IDs, n \in 0..MaxData, h \in Handlers :
               \A bus \in BusBehaviours(n) :
                  \A r0 \in {receiveSlaveResponse(Call("receiveSlaveResponse"), id, n, h, bus)} :
                     /\ r0 = receiveSlaveResponse(Flushed(Call("receiveSlaveResponse")),
                                                  id, n, h, bus)
                     /\ r0.background => r0.rxq = << >>
    /\ state # LIN_STATE_IDLE =>
         \A id \in IDs, n \in 0..MaxData, h \in Handlers, b \in DOMAIN userBuf :
            \A bus \in BusBehaviours(n) :
               /\ receiveSlaveResponse(Call("receiveSlaveResponse"), id, n, h, bus).rxq = rxq
               /\ receiveSlaveResponseBuf(Call("receiveSlaveResponseBuf"), id, n, b, bus).rxq = rxq
               /\ sendMasterRequest(Call("sendMasterRequest"), id,
                                    [i \in 1..n |-> CHOOSE d \in DataBytes : TRUE], bus).rxq = rxq

C32_Witness ==
    /\ state = LIN_STATE_IDLE /\ baudrate > 0
    /\ rxq # << >>
    /\ Last(path) = "recv:timeout"

---------------------------------------------------------------------------
(* Baud rate while Idle *)

\* C34: whenever the engine is Idle with the channel opened by begin, the
\* channel runs at the full configured baud rate, not at the half baud rate
\* used for the break.
C34_IdleAtFullBaud ==
    (state = LIN_STATE_IDLE /\ serialBaud # 0) => serialBaud = baudrate

---------------------------------------------------------------------------
(* A handler that issues a request *)

ReceiveSlaveResponseNested ==
    /\ nReq < MaxRequests
    /\ \E id \in ArgsOf(IDs), n \in ArgsOf(0..MaxData) :
         \E bus \in BusOf(BusBehaviours(n)) :
           Commit(receiveSlaveResponse(Call("receiveSlaveResponse"), id, n,
                                       RequestingHandler, bus))

NextNested ==
    \/ Begin
    \/ ReceiveSlaveResponse
    \/ ReceiveSlaveResponseNested
    \/ RunSend
    \/ RunReceive

SpecNested == Init /\ [][NextNested]_vars

\* The machine at the moment the receive step, having read the frame of
\* bus behaviour f and found echo and checksum right, calls the handler
AtHandler(f) ==
    readFrame([Enter("handlerReceive") EXCEPT !.rxq = @ \o FrameEcho(Cur, f)])

\* The machine when the handler called by the receive step has returned
HandlerReturned(f) ==
    callHandler(AtHandler(f), lenRx - 4, [i \in 1..(lenRx - 4) |-> AtHandler(f).bufRx[2 + i]])

\* C33: on a successful slave response the handler is invoked while the
\* state is still FrameInFlight, a request issued from inside the handler is
\* rejected with StateError, and the state becomes Idle only after the
\* handler has returned.
C33_HandlerBeforeIdle ==
    (state = LIN_STATE_FRAME /\ frameType = LIN_SLAVE_RESPONSE /\ rxq = << >>) =>
       \A f \in {g \in FrameBehaviours(lenRx - 4) : g.kind = "exact"} :
          \A h \in {HandlerReturned(f)}, r \in {RecvStep(f)} :
             /\ Last(r.path) = "recv:ok"
             /\ Len(r.calls) = 1 /\ r.calls[1].at = LIN_STATE_FRAME
             /\ rx_handler = RequestingHandler =>
                   /\ Has(h.path, "rejected")
                   /\ h.ret = {LIN_ERROR_STATE}
                   /\ LIN_ERROR_STATE \in h.error
             /\ h.state = LIN_STATE_FRAME
             /\ r.state = LIN_STATE_IDLE

=============================================================================
